---------------------------- MODULE Spec2Model ----------------------------
(***************************************************************************)
(* A model of the RAGify retrieval pipeline:                               *)
(*   RagifySearch/extract_queries.py   query expansion with fallbacks      *)
(*   web_scraper.py                    search, URL filtering, page fetch   *)
(*   app.py                            the orchestration of one user turn  *)
(*                                                                         *)
(* Python strings are modelled as sequences of Unicode code points         *)
(* (naturals), so that prefix tests, case folding, stripping and percent   *)
(* encoding are computed character by character.  Python's None, where a   *)
(* string is expected, is the one-element sequence <<-1>>, which is the    *)
(* image of no string.                                                     *)
(*                                                                         *)
(* Each component has its own specification over the shared variables; the *)
(* variables of the other components stay at their idle values.            *)
(***************************************************************************)
EXTENDS Integers, Sequences, FiniteSets, TLC

VARIABLES
    \* encode_url_to_filename / decode_filename_to_url round trip
    c_pc, c_url, c_filename, c_decoded,
    \* the filtering loop of get_urls: its input list and its result
    g_pc, g_urls, g_clean,
    \* fetch_web_pages: its arguments, its position (pc), the index of the query
    \* being processed, the URL batch of that query, how many URLs of the batch
    \* have had their turn, the result of the last fetch_and_save, and the
    \* download directory (file name -> what the file holds)
    pc, queries, provider, qidx, urls, uidx, result, files,
    \* what one run of fetch_web_pages has done so far (history):
    \*   searches     the number of get_urls calls
    \*   raisedAt     the queries whose search backend raised
    \*   listed       per URL, the number of queries get_urls returned it for
    \*   attempted    per URL, the number of fetch_and_save calls
    \*   succeeded    the URLs with a fetch_and_save call that returned a path
    \*   pending      the last fetch attempt and the time slept since it ended
    \*   gaps         per pair of consecutive attempts, the first one's outcome
    \*                and position and the time slept between them
    \*   sinceSearch  the time slept since the last get_urls call
    \*   searchGaps   the values of sinceSearch at each later get_urls call
    searches, raisedAt, listed, attempted, succeeded, pending, gaps,
    sinceSearch, searchGaps,
    \* extract_queries: its position, its argument `query`, the `content` of the
    \* chat response, and the list it returns
    x_pc, x_query, x_content, x_result,
    \* one user turn of app.py: its position, the names usr_msg, queries (here
    \* t_queries), embedding_function, prompt and sources, the documents in the
    \* download directory after the fetch, and (history) which stages failed
    \* and whether generate_prompt returned a grounded prompt
    t_pc, usr_msg, t_queries, embedding_function, prompt, sources, docs,
    failed, grounded

cvars == <<c_pc, c_url, c_filename, c_decoded>>
gvars == <<g_pc, g_urls, g_clean>>
fstate == <<pc, queries, provider, qidx, urls, uidx, result, files>>
fhist == <<searches, raisedAt, listed, attempted, succeeded, pending, gaps,
           sinceSearch, searchGaps>>
fvars == <<fstate, fhist>>
xvars == <<x_pc, x_query, x_content, x_result>>
tvars == <<t_pc, usr_msg, t_queries, embedding_function, prompt, sources, docs,
           failed, grounded>>
vars == <<cvars, gvars, fvars, xvars, tvars>>

-----------------------------------------------------------------------------
(* Strings                                                                 *)

None == <<-1>>

\* Python truthiness of an optional string: None and "" are falsy.
Truthy(s) == s # None /\ s # <<>>

\* All strings over alphabet A of length at most n.
StrUpTo(A, n) == UNION {[1..k -> A] : k \in 0..n}

\* s[i:] in Python, with i counted from 0.
Drop(s, i) == SubSeq(s, i + 1, Len(s))

\* str.startswith(prefix)
startswith(s, prefix) ==
    /\ Len(s) >= Len(prefix)
    /\ SubSeq(s, 1, Len(prefix)) = prefix

-----------------------------------------------------------------------------
(* urllib.parse.quote(url, safe="") and urllib.parse.unquote(filename)     *)

\* The characters quote() never encodes: letters, digits and "_.-~".
AlwaysSafe == (65..90) \cup (97..122) \cup (48..57) \cup {95, 46, 45, 126}

\* str.encode("utf-8") of one code point below 0x10000.
Utf8Encode(c) ==
    IF c < 128 THEN <<c>>
    ELSE IF c < 2048 THEN <<192 + (c \div 64), 128 + (c % 64)>>
    ELSE <<224 + (c \div 4096), 128 + ((c \div 64) % 64), 128 + (c % 64)>>

\* One upper-case hexadecimal digit, as quote() writes it.
HexDigit(d) == IF d < 10 THEN 48 + d ELSE 55 + d

\* The value of a hexadecimal digit of either case, -1 for any other character.
HexVal(c) ==
    IF c \in 48..57 THEN c - 48
    ELSE IF c \in 65..70 THEN c - 55
    ELSE IF c \in 97..102 THEN c - 87
    ELSE -1

\* quote_from_bytes on one byte, with the bytes of `safe` left as they are.
QuoteByte(b, safe) ==
    IF b \in safe THEN <<b>>
    ELSE <<37, HexDigit(b \div 16), HexDigit(b % 16)>>

RECURSIVE QuoteBytes(_, _)
QuoteBytes(bs, safe) ==
    IF bs = <<>> THEN <<>>
    ELSE QuoteByte(Head(bs), safe) \o QuoteBytes(Tail(bs), safe)

RECURSIVE Utf8EncodeStr(_)
Utf8EncodeStr(s) ==
    IF s = <<>> THEN <<>>
    ELSE Utf8Encode(Head(s)) \o Utf8EncodeStr(Tail(s))

\* urllib.parse.quote(s, safe="")
quote(s) == QuoteBytes(Utf8EncodeStr(s), AlwaysSafe)

RECURSIVE SpaceToPlus(_)
SpaceToPlus(s) ==
    IF s = <<>> THEN <<>>
    ELSE <<IF Head(s) = 32 THEN 43 ELSE Head(s)>> \o SpaceToPlus(Tail(s))

\* urllib.parse.quote_plus(s, safe=""): a space becomes "+", which unquote()
\* does not turn back into a space.
quote_plus(s) == SpaceToPlus(QuoteBytes(Utf8EncodeStr(s), AlwaysSafe \cup {32}))

\* urllib.parse.unquote_to_bytes: "%XX" with two hexadecimal digits becomes
\* one byte, any other "%" stays as it is.
RECURSIVE unquote_to_bytes(_)
unquote_to_bytes(s) ==
    IF s = <<>> THEN <<>>
    ELSE IF /\ Head(s) = 37
            /\ Len(s) >= 3
            /\ HexVal(s[2]) >= 0
            /\ HexVal(s[3]) >= 0
         THEN <<16 * HexVal(s[2]) + HexVal(s[3])>> \o unquote_to_bytes(Drop(s, 3))
         ELSE <<Head(s)>> \o unquote_to_bytes(Tail(s))

IsCont(b) == b \in 128..191

\* The second byte a three-byte lead accepts (no overlong forms, no surrogates).
Second3(lead, b) ==
    /\ IsCont(b)
    /\ (lead = 224 => b >= 160)
    /\ (lead = 237 => b <= 159)

\* bytes.decode("utf-8", errors="replace") for code points below 0x10000: an
\* ill-formed sequence becomes U+FFFD, one per maximal ill-formed prefix.
RECURSIVE Utf8Decode(_)
Utf8Decode(bs) ==
    IF bs = <<>> THEN <<>>
    ELSE LET b == Head(bs) IN
         IF b < 128 THEN <<b>> \o Utf8Decode(Tail(bs))
         ELSE IF b \in 194..223 /\ Len(bs) >= 2 /\ IsCont(bs[2])
              THEN <<(b - 192) * 64 + (bs[2] - 128)>> \o Utf8Decode(Drop(bs, 2))
         ELSE IF b \in 224..239 /\ Len(bs) >= 3 /\ Second3(b, bs[2]) /\ IsCont(bs[3])
              THEN <<(b - 224) * 4096 + (bs[2] - 128) * 64 + (bs[3] - 128)>>
                   \o Utf8Decode(Drop(bs, 3))
         ELSE IF b \in 224..239 /\ Len(bs) >= 2 /\ Second3(b, bs[2])
              THEN <<65533>> \o Utf8Decode(Drop(bs, 2))
         ELSE <<65533>> \o Utf8Decode(Tail(bs))

IsAscii(c) == c < 128

\* The length of the longest prefix of s made of ASCII characters only
\* (ascii = TRUE) or of non-ASCII characters only (ascii = FALSE).
RECURSIVE RunLen(_, _)
RunLen(s, ascii) ==
    IF s = <<>> \/ IsAscii(Head(s)) # ascii THEN 0 ELSE 1 + RunLen(Tail(s), ascii)

\* urllib.parse.unquote(s): each maximal ASCII run is unquoted to bytes and
\* decoded, the characters between the runs are kept.
RECURSIVE UnquoteRuns(_)
UnquoteRuns(s) ==
    IF s = <<>> THEN <<>>
    ELSE IF IsAscii(Head(s))
         THEN LET n == RunLen(s, TRUE) IN
              Utf8Decode(unquote_to_bytes(SubSeq(s, 1, n))) \o UnquoteRuns(Drop(s, n))
         ELSE LET n == RunLen(s, FALSE) IN
              SubSeq(s, 1, n) \o UnquoteRuns(Drop(s, n))

unquote(s) == IF 37 \in {s[i] : i \in DOMAIN s} THEN UnquoteRuns(s) ELSE s

\* web_scraper.encode_url_to_filename, had it used quote_plus.
encode_url_to_filename_plus(url) == quote_plus(url)

\* web_scraper.encode_url_to_filename
encode_url_to_filename(url) == quote(url)

\* web_scraper.decode_filename_to_url
decode_filename_to_url(filename) == unquote(filename)

-----------------------------------------------------------------------------
(* The round trip of a URL through a file name                             *)

\* The longest URL of the round-trip check.
MaxUrlLen == 3

\* a / % 2 F space e-acute euro-sign: safe and unsafe ASCII, the escape
\* character itself, hexadecimal digits, and two- and three-byte characters.
UrlAlphabet == {97, 47, 37, 50, 70, 32, 233, 8364}

IdleCodec ==
    /\ c_pc = "idle"
    /\ c_url = <<>>
    /\ c_filename = <<>>
    /\ c_decoded = <<>>

IdleFilter ==
    /\ g_pc = "idle"
    /\ g_urls = <<>>
    /\ g_clean = <<>>

IdleExpand ==
    /\ x_pc = "idle"
    /\ x_query = <<>>
    /\ x_content = <<>>
    /\ x_result = <<>>

IdleTurn ==
    /\ t_pc = "idle"
    /\ usr_msg = <<>>
    /\ t_queries = <<>>
    /\ embedding_function = <<>>
    /\ prompt = <<>>
    /\ sources = <<>>
    /\ docs = <<>>
    /\ failed = {}
    /\ grounded = FALSE

IdleFetch ==
    /\ pc = "idle"
    /\ queries = <<>>
    /\ provider = <<>>
    /\ qidx = 0
    /\ urls = <<>>
    /\ uidx = 0
    /\ result = <<>>
    /\ files = <<>>
    /\ searches = 0
    /\ raisedAt = {}
    /\ listed = <<>>
    /\ attempted = <<>>
    /\ succeeded = {}
    /\ pending = <<>>
    /\ gaps = {}
    /\ sinceSearch = 0
    /\ searchGaps = {}

InitCodec ==
    /\ c_pc = "url"
    /\ c_url \in StrUpTo(UrlAlphabet, MaxUrlLen)
    /\ c_filename = <<>>
    /\ c_decoded = <<>>
    /\ IdleFilter
    /\ IdleFetch
    /\ IdleExpand
    /\ IdleTurn

Encode ==
    /\ c_pc = "url"
    /\ c_filename' = encode_url_to_filename(c_url)
    /\ c_pc' = "encoded"
    /\ UNCHANGED <<c_url, c_decoded, gvars, fvars, xvars, tvars>>

Decode ==
    /\ c_pc = "encoded"
    /\ c_decoded' = decode_filename_to_url(c_filename)
    /\ c_pc' = "decoded"
    /\ UNCHANGED <<c_url, c_filename, gvars, fvars, xvars, tvars>>

NextCodec == Encode \/ Decode

SpecCodec == InitCodec /\ [][NextCodec]_vars

\* C9: for every URL of printable characters, decoding the encoded file name
\* gives back exactly the URL.
C9_RoundTrip == c_pc = "decoded" => c_decoded = c_url

\* A URL holding the escape character, a space and a three-byte character has
\* gone through both conversions.
C9_Witness ==
    /\ c_pc = "decoded"
    /\ c_url = <<37, 32, 8364>>
    /\ c_filename # c_url
    /\ c_decoded = c_url

-----------------------------------------------------------------------------
(* get_urls: the provider branches and the filtering loop                  *)

HTTP == <<104, 116, 116, 112, 58, 47, 47>>          \* "http://"
HTTPS == <<104, 116, 116, 112, 115, 58, 47, 47>>    \* "https://"

DUCKDUCKGO == <<100, 117, 99, 107, 100, 117, 99, 107, 103, 111>>
GOOGLE == <<103, 111, 111, 103, 108, 101>>
GoogleCapital == <<71, 111, 111, 103, 108, 101>>    \* "Google"
BING == <<98, 105, 110, 103>>

UrlA == <<104, 116, 116, 112, 58, 47, 47, 97>>      \* "http://a"
UrlB == <<104, 116, 116, 112, 58, 47, 47, 98>>      \* "http://b"
UrlC == <<104, 116, 116, 112, 115, 58, 47, 47, 99>> \* "https://c"
UrlD == <<104, 116, 116, 112, 58, 47, 47, 100>>     \* "http://d"
UrlE == <<104, 116, 116, 112, 58, 47, 47, 101>>     \* "http://e"
FtpA == <<102, 116, 112, 58, 47, 47, 97>>           \* "ftp://a"
BareHttp == <<104, 116, 116, 112>>                  \* "http"

\* str.lower() on ASCII letters.
lower(s) == [i \in DOMAIN s |-> IF s[i] \in 65..90 THEN s[i] + 32 ELSE s[i]]

\* The test of lines 50 and 88.
HasHttpScheme(u) == startswith(u, HTTP) \/ startswith(u, HTTPS)

\* Lines 45-56: the loop over `urls` with its `seen` set and `clean` list.
RECURSIVE FilterLoop(_, _, _)
FilterLoop(list, seen, clean) ==
    IF list = <<>> THEN clean
    ELSE LET u == Head(list) IN
         IF ~Truthy(u) THEN FilterLoop(Tail(list), seen, clean)
         ELSE IF ~HasHttpScheme(u) THEN FilterLoop(Tail(list), seen, clean)
         ELSE IF u \in seen THEN FilterLoop(Tail(list), seen, clean)
         ELSE FilterLoop(Tail(list), seen \cup {u}, Append(clean, u))

\* The loop without `seen.add(u)`: nothing is ever recognised as a repeat.
RECURSIVE FilterLoopNoAdd(_, _, _)
FilterLoopNoAdd(list, seen, clean) ==
    IF list = <<>> THEN clean
    ELSE LET u == Head(list) IN
         IF ~Truthy(u) THEN FilterLoopNoAdd(Tail(list), seen, clean)
         ELSE IF ~HasHttpScheme(u) THEN FilterLoopNoAdd(Tail(list), seen, clean)
         ELSE IF u \in seen THEN FilterLoopNoAdd(Tail(list), seen, clean)
         ELSE FilterLoopNoAdd(Tail(list), seen, Append(clean, u))

clean_urls_no_add(list) == FilterLoopNoAdd(list, {}, <<>>)

\* Lines 45-56 of get_urls, from `seen = set()` to `return clean`.
clean_urls(list) == FilterLoop(list, {}, <<>>)

\* `[item.get("href") for item in results if item.get("href")]` (line 28) and
\* `if u: urls.append(u)` (lines 35-37): only truthy entries are collected.
RECURSIVE CollectTruthy(_)
CollectTruthy(results) ==
    IF results = <<>> THEN <<>>
    ELSE (IF Truthy(Head(results)) THEN <<Head(results)>> ELSE <<>>)
         \o CollectTruthy(Tail(results))

\* What a call of get_urls yields: its return value, or an exception that
\* leaves it (raised = TRUE).
Returns(v) == [raised |-> FALSE, urls |-> v]
Raises == [raised |-> TRUE, urls |-> <<>>]

\* get_urls with the google branch's try/except left out: the backend's
\* exception leaves the function.
get_urls_unguarded(prov, backend) ==
    LET p == lower(IF Truthy(prov) THEN prov ELSE DUCKDUCKGO) IN
    IF p = DUCKDUCKGO
    THEN Returns(clean_urls(IF backend.raises THEN <<>>
                            ELSE CollectTruthy(backend.results)))
    ELSE IF p = GOOGLE
    THEN IF backend.raises THEN Raises
         ELSE Returns(clean_urls(CollectTruthy(backend.results)))
    ELSE Returns(clean_urls(<<>>))

\* get_urls(query, num_results, provider).  backend is what the search library
\* does on this call: it raises, or it produces `results` (for DuckDuckGo the
\* href of each item, None where an item has none).
get_urls(prov, backend) ==
    LET p == lower(IF Truthy(prov) THEN prov ELSE DUCKDUCKGO) IN
    IF p = DUCKDUCKGO
    THEN Returns(clean_urls(IF backend.raises THEN <<>>
                            ELSE CollectTruthy(backend.results)))
    ELSE IF p = GOOGLE
    THEN Returns(clean_urls(IF backend.raises THEN <<>>
                            ELSE CollectTruthy(backend.results)))
    ELSE Returns(clean_urls(<<>>))

-----------------------------------------------------------------------------
(* The filtering loop on arbitrary lists                                  *)

\* The longest list given to the filtering loop.
MaxResults == 4

\* Entries a provider may hand over: three URLs that pass, one with another
\* scheme, one with no scheme separator, the empty string and None.
RawEntries == {UrlA, UrlB, UrlC, FtpA, BareHttp, <<>>, None}

InitFilter ==
    /\ g_pc = "start"
    /\ g_urls \in StrUpTo(RawEntries, MaxResults)
    /\ g_clean = <<>>
    /\ IdleCodec
    /\ IdleFetch
    /\ IdleExpand
    /\ IdleTurn

Filter ==
    /\ g_pc = "start"
    /\ g_clean' = clean_urls(g_urls)
    /\ g_pc' = "done"
    /\ UNCHANGED <<g_urls, cvars, fvars, xvars, tvars>>

NextFilter == Filter

SpecFilter == InitFilter /\ [][NextFilter]_vars

\* The position of the first occurrence of u in list l.
FirstIndex(l, u) == CHOOSE i \in DOMAIN l : l[i] = u /\ \A j \in 1..(i - 1) : l[j] # u

Range(l) == {l[i] : i \in DOMAIN l}

\* C6: the filtered list holds only http:// and https:// entries, holds none
\* twice, holds every such entry of the input, and orders them by their first
\* occurrence in the input.
C6_Filter ==
    g_pc = "done" =>
        /\ \A i \in DOMAIN g_clean : HasHttpScheme(g_clean[i])
        /\ \A i, j \in DOMAIN g_clean : i # j => g_clean[i] # g_clean[j]
        /\ Range(g_clean) = {u \in Range(g_urls) : Truthy(u) /\ HasHttpScheme(u)}
        /\ \A i, j \in DOMAIN g_clean :
               i < j => FirstIndex(g_urls, g_clean[i]) < FirstIndex(g_urls, g_clean[j])

\* A list with a non-HTTP entry and a repeat has been filtered down to
\* its two URLs in first-seen order.
C6_Witness ==
    /\ g_pc = "done"
    /\ g_urls = <<UrlB, FtpA, UrlA, UrlB>>
    /\ g_clean = <<UrlB, UrlA>>

-----------------------------------------------------------------------------
(* fetch_and_save and fetch_web_pages                                      *)

\* asyncio.sleep(2.0) after a failed fetch (line 95), asyncio.sleep(1.0) after
\* a successful one (line 97) and after a query's batch (line 99), in seconds.
FailureSleep == 2
SuccessSleep == 1
BatchSleep == 1

\* How one fetch_and_save call goes: everything succeeds ("saved"), or the
\* first statement to raise is session.get (connection error, timeout),
\* raise_for_status, the reading and parsing of the body, open(), or f.write().
FetchOutcomes ==
    {"saved", "get_error", "status_error", "parse_error", "open_error", "write_error"}

\* open(filepath, "w") creates or truncates the file; f.write(text) fills it.
WriteFile(dir, filename, content) == (filename :> content) @@ dir

\* What a call of fetch_and_save yields: its return value and the directory it
\* leaves, or an exception that leaves it (raised = TRUE).
Saved(path, dir) == [raised |-> FALSE, result |-> path, files |-> dir]
Failed(dir) == [raised |-> FALSE, result |-> None, files |-> dir]
Escapes(dir) == [raised |-> TRUE, result |-> None, files |-> dir]

\* Line 59: the file name of each URL a search can return, computed once.
FileName ==
    [u \in {UrlA, UrlB, UrlC, UrlD, UrlE} |-> encode_url_to_filename(u)]

\* fetch_and_save without its try/except: a failure leaves the function.
fetch_and_save_unguarded(dir, url, outcome) ==
    LET filename == FileName[url] IN
    IF outcome = "saved" THEN Saved(filename, WriteFile(dir, filename, "text"))
    ELSE IF outcome = "write_error" THEN Escapes(WriteFile(dir, filename, "partial"))
    ELSE Escapes(dir)

\* fetch_and_save(session, url, folder) on directory dir.  The file is opened
\* for writing (line 69) before the text is written (line 70), so a failure of
\* the write leaves a created or truncated file behind and still returns None.
fetch_and_save(dir, url, outcome) ==
    LET filename == FileName[url] IN
    IF outcome = "saved" THEN Saved(filename, WriteFile(dir, filename, "text"))
    ELSE IF outcome = "write_error" THEN Failed(WriteFile(dir, filename, "partial"))
    ELSE Failed(dir)

\* A pacing that sleeps the same time whatever the fetch returned.
sleep_after_flat(res) == SuccessSleep

\* Lines 93-97: the sleep that follows a fetch.
sleep_after(res) == IF res = None THEN FailureSleep ELSE SuccessSleep

\* A loop that stays on a URL whose fetch failed.
next_url_retry(i, res) == IF res = None THEN i ELSE i + 1

\* `for url in urls` (line 87): the loop goes on to the next URL whatever the
\* fetch returned.
next_url(i, res) == i + 1

\* The most queries of a query set.
MaxQueries == 2

AllUrls == {UrlA, UrlB, UrlC, UrlD, UrlE}

\* The result lists a search backend may produce.
ResultLists ==
    { <<>>, <<UrlA>>, <<UrlB, UrlA>>, <<UrlA, UrlB, UrlC>>, <<UrlC, UrlD, UrlE>>,
      <<UrlA, UrlA>>, <<None, FtpA, UrlB>> }

\* What the search backend does on one call.
SearchOutcomes ==
    {[raises |-> TRUE, results |-> <<>>]}
        \cup {[raises |-> FALSE, results |-> r] : r \in ResultLists}

\* The provider arguments: None (the default applies), a recognised name in
\* mixed case, and an unrecognised one.
Providers == {None, GoogleCapital, BING}

\* Line 82: what get_urls(query, provider) yields for each provider argument
\* and each behaviour of the backend, computed once.
UrlsOf == [p \in Providers, b \in SearchOutcomes |-> get_urls(p, b)]

\* "q1", "q2", ...
QueryText(i) == <<113, 48 + i>>

NoAttempt == [active |-> FALSE, failed |-> FALSE, last |-> FALSE, delay |-> 0]

InitFetch ==
    /\ pc = "loop"
    /\ \E n \in 0..MaxQueries : queries = [i \in 1..n |-> QueryText(i)]
    /\ provider \in Providers
    /\ qidx = 0
    /\ urls = <<>>
    /\ uidx = 0
    /\ result = None
    /\ files = <<>>
    /\ searches = 0
    /\ raisedAt = {}
    /\ listed = [u \in AllUrls |-> 0]
    /\ attempted = [u \in AllUrls |-> 0]
    /\ succeeded = {}
    /\ pending = NoAttempt
    /\ gaps = {}
    /\ sinceSearch = 0
    /\ searchGaps = {}
    /\ IdleCodec
    /\ IdleFilter
    /\ IdleExpand
    /\ IdleTurn

\* Lines 81-85: the next query's search; an empty result goes straight on to
\* the following query (`continue`), skipping line 99.
NextQuery ==
    /\ pc = "loop"
    /\ qidx < Len(queries)
    /\ \E backend \in SearchOutcomes :
         LET r == UrlsOf[provider, backend] IN
         /\ searches' = searches + 1
         /\ searchGaps' = IF searches > 0 THEN searchGaps \cup {sinceSearch}
                          ELSE searchGaps
         /\ sinceSearch' = 0
         /\ raisedAt' = IF backend.raises THEN raisedAt \cup {qidx + 1} ELSE raisedAt
         /\ IF r.raised
            THEN /\ pc' = "raised"
                 /\ UNCHANGED <<qidx, urls, uidx, listed>>
            ELSE /\ qidx' = qidx + 1
                 /\ urls' = r.urls
                 /\ uidx' = 0
                 /\ listed' = [u \in AllUrls |->
                                  listed[u] + IF u \in Range(r.urls) THEN 1 ELSE 0]
                 /\ pc' = IF r.urls = <<>> THEN "loop" ELSE "fetch"
    /\ UNCHANGED <<queries, provider, result, files, attempted, succeeded,
                   pending, gaps, cvars, gvars, xvars, tvars>>

\* Lines 87-97: one URL of the batch: the scheme test, fetch_and_save, and the
\* sleep that follows it.
FetchUrl ==
    /\ pc = "fetch"
    /\ uidx < Len(urls)
    /\ LET url == urls[uidx + 1] IN
       IF ~HasHttpScheme(url)
       THEN /\ uidx' = uidx + 1
            /\ pc' = IF uidx' >= Len(urls) THEN "pause" ELSE "fetch"
            /\ UNCHANGED <<result, files, attempted, succeeded, pending, gaps,
                           sinceSearch>>
       ELSE \E outcome \in FetchOutcomes :
            LET r == fetch_and_save(files, url, outcome) IN
            /\ files' = r.files
            /\ attempted' = [attempted EXCEPT ![url] = @ + 1]
            /\ gaps' = IF pending.active
                       THEN gaps \cup {[failed |-> pending.failed,
                                        last |-> pending.last,
                                        delay |-> pending.delay]}
                       ELSE gaps
            /\ IF r.raised
               THEN /\ pc' = "raised"
                    /\ UNCHANGED <<result, uidx, succeeded, pending, sinceSearch>>
               ELSE /\ result' = r.result
                    /\ succeeded' = IF r.result # None THEN succeeded \cup {url}
                                    ELSE succeeded
                    /\ pending' = [active |-> TRUE,
                                   failed |-> r.result = None,
                                   last |-> uidx + 1 = Len(urls),
                                   delay |-> sleep_after(r.result)]
                    /\ sinceSearch' = sinceSearch + sleep_after(r.result)
                    /\ uidx' = next_url(uidx, r.result)
                    /\ pc' = IF uidx' >= Len(urls) THEN "pause" ELSE "fetch"
    /\ UNCHANGED <<queries, provider, qidx, urls, searches, raisedAt, listed,
                   searchGaps, cvars, gvars, xvars, tvars>>

\* Line 99: the sleep after a query's batch.
BatchPause ==
    /\ pc = "pause"
    /\ pending' = [pending EXCEPT !.delay = @ + BatchSleep]
    /\ sinceSearch' = sinceSearch + BatchSleep
    /\ pc' = "loop"
    /\ UNCHANGED <<queries, provider, qidx, urls, uidx, result, files, searches,
                   raisedAt, listed, attempted, succeeded, gaps, searchGaps,
                   cvars, gvars, xvars, tvars>>

\* Line 101: `return True` once every query has had its turn.
Return ==
    /\ pc = "loop"
    /\ qidx = Len(queries)
    /\ pc' = "done"
    /\ UNCHANGED <<queries, provider, qidx, urls, uidx, result, files, fhist,
                   cvars, gvars, xvars, tvars>>

NextFetch == NextQuery \/ FetchUrl \/ BatchPause \/ Return

SpecFetch == InitFetch /\ [][NextFetch]_vars

\* asyncio.run drives the coroutine until it returns: every sleep ends, every
\* session.get ends by its timeout, and the search call returns or raises.
FairSpecFetch == SpecFetch /\ WF_vars(NextFetch)

\* The provider names get_urls has a branch for, after defaulting and folding.
Recognised(prov) ==
    lower(IF Truthy(prov) THEN prov ELSE DUCKDUCKGO) \in {DUCKDUCKGO, GOOGLE}

\* The number of fetch attempts of the run so far.
RECURSIVE Sum(_, _)
Sum(f, S) ==
    IF S = {} THEN 0
    ELSE LET x == CHOOSE y \in S : TRUE IN f[x] + Sum(f, S \ {x})

\* C2 as stated: at the end of a run every URL the searches returned has been
\* attempted exactly once, also when more than one query returned it.
C2_OncePerRun ==
    pc = "done" => \A u \in AllUrls : listed[u] >= 1 => attempted[u] = 1

\* C2 as amended: a URL is attempted once for each query whose search returned
\* it, never more, and by the end of the run exactly that often.
C2_OncePerQuery ==
    /\ \A u \in AllUrls : attempted[u] <= listed[u]
    /\ pc = "done" => \A u \in AllUrls : attempted[u] = listed[u]

\* Two queries have each yielded three URLs, one of them in common; the run
\* has ended after six fetch attempts, two of them of the common URL.
C2_Witness ==
    /\ pc = "done"
    /\ Len(queries) = 2
    /\ listed = [u \in AllUrls |-> IF u = UrlC THEN 2 ELSE 1]
    /\ attempted[UrlC] = 2
    /\ Sum(attempted, AllUrls) = 6

\* C3: at the end of a run that started on an empty directory, a file exists
\* only for a URL with a successful fetch, and every such URL has its file.
C3_FilesOnlyOnSuccess ==
    pc = "done" =>
        /\ \A f \in DOMAIN files : decode_filename_to_url(f) \in succeeded
        /\ \A u \in succeeded : encode_url_to_filename(u) \in DOMAIN files

\* C4: no exception leaves get_urls; a search whose backend raised, or whose
\* provider is not recognised, yields no URL; and the run still gives every
\* query of the query set its search.
C4_SearchErrorsAbsorbed ==
    /\ pc # "raised"
    /\ (qidx \in raisedAt \/ ~Recognised(provider)) => urls = <<>>
    /\ pc = "done" => searches = Len(queries) /\ qidx = Len(queries)

\* The first query's search raised, the second query's search was still made
\* and its URLs were fetched, and the run has ended.
C4_Witness ==
    /\ pc = "done"
    /\ raisedAt = {1}
    /\ searches = 2
    /\ urls # <<>>
    /\ Sum(attempted, AllUrls) = Len(urls)

\* C5: every run of fetch_web_pages returns, and a fetch that failed is always
\* followed by the next URL's turn (or by the end of the batch), in the same
\* query, with the batch unchanged.
C5_AlwaysCompletes ==
    /\ <>(pc = "done")
    /\ [][(pc = "fetch" /\ result' = None) =>
            /\ pc' \in {"fetch", "pause"}
            /\ uidx' = uidx + 1
            /\ urls' = urls
            /\ qidx' = qidx]_vars

\* A run has ended in which the first fetch failed, a later URL of the same
\* query and a URL of the next query were still attempted, and every URL
\* returned was attempted.
C5_Witness ==
    /\ pc = "done"
    /\ qidx = 2
    /\ listed = [u \in AllUrls |-> IF u = UrlC THEN 2 ELSE 1]
    /\ attempted = listed
    /\ succeeded = AllUrls \ {UrlA}

\* The time that passes between a successful fetch and the next fetch attempt:
\* line 97, and line 99 as well when the fetch was the last of its batch.
DelayAfterSuccess(last) == SuccessSleep + IF last THEN BatchSleep ELSE 0

\* C8: the time slept between a failed fetch and the next fetch attempt is
\* strictly longer than the time slept after a successful fetch in the same
\* position of the schedule (inside a batch, or at the end of one).
C8_FailureDelayLonger ==
    \A g \in gaps :
        IF g.failed THEN g.delay > DelayAfterSuccess(g.last)
        ELSE g.delay = DelayAfterSuccess(g.last)

\* A failed and a successful fetch inside a batch and a failed fetch at the end
\* of a batch have each been followed by a next attempt.
C8_Witness ==
    /\ \E g \in gaps : g.failed /\ ~g.last
    /\ \E g \in gaps : ~g.failed /\ ~g.last
    /\ \E g \in gaps : g.failed /\ g.last

\* C10: every search call after the first is preceded by a suspension since
\* the search call before it.
C10_PauseBetweenSearches == \A d \in searchGaps : d > 0

-----------------------------------------------------------------------------
(* extract_queries                                                         *)

\* str.strip(): leading and trailing blanks, tabs and line ends are removed.
Whitespace == {32, 9, 10, 13}

RECURSIVE lstrip(_)
lstrip(s) == IF s # <<>> /\ Head(s) \in Whitespace THEN lstrip(Tail(s)) ELSE s

RECURSIVE rstrip(_)
rstrip(s) ==
    IF s # <<>> /\ s[Len(s)] \in Whitespace THEN rstrip(SubSeq(s, 1, Len(s) - 1))
    ELSE s

strip(s) == rstrip(lstrip(s))

\* str.splitlines() for "\n" line ends: no line for the empty string, and no
\* empty last line after a final line end.
RECURSIVE splitlines(_)
splitlines(s) ==
    IF s = <<>> THEN <<>>
    ELSE IF \E i \in DOMAIN s : s[i] = 10
         THEN LET i == CHOOSE k \in DOMAIN s : s[k] = 10 /\ \A j \in 1..(k - 1) : s[j] # 10
              IN <<SubSeq(s, 1, i - 1)>> \o splitlines(Drop(s, i))
         ELSE <<s>>

\* A value inside a JSON list, with the text str() gives for the Python value
\* json.loads makes of it: "a" -> a, 1 -> 1, null -> None.
JsonString == [t |-> "string", str |-> <<97>>]
JsonNumber == [t |-> "number", str |-> <<49>>]
JsonNull == [t |-> "null", str |-> <<78, 111, 110, 101>>]
JsonScalars == {JsonString, JsonNumber, JsonNull}

\* The JSON text of a scalar: "a" in quotes, 1, null.
ScalarText(q) ==
    IF q.t = "string" THEN <<34>> \o q.str \o <<34>>
    ELSE IF q.t = "number" THEN q.str
    ELSE <<110, 117, 108, 108>>

RECURSIVE JoinItems(_)
JoinItems(items) ==
    IF items = <<>> THEN <<>>
    ELSE IF Len(items) = 1 THEN ScalarText(items[1])
    ELSE ScalarText(items[1]) \o <<44, 32>> \o JoinItems(Tail(items))

\* The JSON text of a list: [ ... ]
ListText(items) == <<91>> \o JoinItems(items) \o <<93>>

QueriesKey == <<34, 113, 117, 101, 114, 105, 101, 115, 34, 58, 32>>  \* "queries":

\* What json.loads makes of a text: a dict (with or without the key "queries",
\* whose value is a list or not), a list, another value, or a ValueError.
Parsed(kind, has, isList, items) ==
    [kind |-> kind, has_queries |-> has, queries_is_list |-> isList, items |-> items]

NotJson == Parsed("error", FALSE, FALSE, <<>>)

\* A chat response's content: its text and what json.loads makes of that text.
Content(text, json) == [text |-> text, json |-> json]

\* The most items of a JSON list, and the longest content that is not JSON.
MaxItems == 2
MaxTextLen == 3

ItemLists == StrUpTo(JsonScalars, MaxItems)

\* Contents that are JSON: {"queries": [...]}, {"queries": 1}, {}, [...], 1
JsonContents ==
    {Content(<<123>> \o QueriesKey \o ListText(l) \o <<125>>,
             Parsed("dict", TRUE, TRUE, l)) : l \in ItemLists}
        \cup {Content(<<123>> \o QueriesKey \o <<49>> \o <<125>>,
                      Parsed("dict", TRUE, FALSE, <<>>))}
        \cup {Content(<<123, 125>>, Parsed("dict", FALSE, FALSE, <<>>))}
        \cup {Content(ListText(l), Parsed("list", FALSE, FALSE, l)) : l \in ItemLists}
        \cup {Content(<<49>>, Parsed("other", FALSE, FALSE, <<>>))}

\* Contents that are not JSON: the empty string, and texts of the letter a,
\* blanks and line ends.
TextContents == {Content(t, NotJson) : t \in StrUpTo({97, 32, 10}, MaxTextLen)}

Contents == JsonContents \cup TextContents

\* What one chat() call does: it raises, or it answers with a content.
ChatOutcomes ==
    {[raises |-> TRUE, content |-> Content(<<>>, NotJson)]}
        \cup {[raises |-> FALSE, content |-> c] : c \in Contents}

\* [str(q) for q in ...]
RECURSIVE StrAll(_)
StrAll(items) ==
    IF items = <<>> THEN <<>> ELSE <<Head(items).str>> \o StrAll(Tail(items))

\* [line.strip() for line in content.splitlines() if line.strip()]
RECURSIVE StrippedLines(_)
StrippedLines(ls) ==
    IF ls = <<>> THEN <<>>
    ELSE (IF strip(Head(ls)) # <<>> THEN <<strip(Head(ls))>> ELSE <<>>)
         \o StrippedLines(Tail(ls))

\* Lines 42-57: from `if not content` to the last return.
parse_content(query, content) ==
    IF content.text = <<>> THEN <<query>>
    ELSE LET parsed == content.json
             lines == StrippedLines(splitlines(content.text))
         IN IF parsed.kind = "dict" /\ parsed.has_queries /\ parsed.queries_is_list
            THEN StrAll(parsed.items)
            ELSE IF parsed.kind = "list" THEN StrAll(parsed.items)
            ELSE IF lines # <<>> THEN lines
            ELSE <<query>>

\* extract_queries(query, model), given what the chat call with the schema
\* (first) and the one without it (second) do.
extract_queries(query, first, second) ==
    IF ~first.raises THEN parse_content(query, first.content)
    ELSE IF ~second.raises THEN parse_content(query, second.content)
    ELSE <<query>>

\* The questions: the empty string, "a", and "a b".
Questions == {<<>>, <<97>>, <<97, 32, 98>>}

InitExpand ==
    /\ x_pc = "chat"
    /\ x_query \in Questions
    /\ x_content = Content(<<>>, NotJson)
    /\ x_result = <<>>
    /\ IdleCodec
    /\ IdleFilter
    /\ IdleFetch
    /\ IdleTurn

\* Lines 22-30: the chat call constrained to the Queries schema.
ChatWithSchema ==
    /\ x_pc = "chat"
    /\ \E o \in ChatOutcomes :
         IF o.raises
         THEN x_pc' = "retry" /\ UNCHANGED x_content
         ELSE x_pc' = "parse" /\ x_content' = o.content
    /\ UNCHANGED <<x_query, x_result, cvars, gvars, fvars, tvars>>

\* Lines 31-40: the same chat call without the schema; if it raises too, the
\* question alone is returned.
ChatWithoutSchema ==
    /\ x_pc = "retry"
    /\ \E o \in ChatOutcomes :
         IF o.raises
         THEN x_pc' = "done" /\ x_result' = <<x_query>> /\ UNCHANGED x_content
         ELSE x_pc' = "parse" /\ x_content' = o.content /\ UNCHANGED x_result
    /\ UNCHANGED <<x_query, cvars, gvars, fvars, tvars>>

\* Lines 42-57: the content is turned into the returned list.
ParseContent ==
    /\ x_pc = "parse"
    /\ x_result' = parse_content(x_query, x_content)
    /\ x_pc' = "done"
    /\ UNCHANGED <<x_query, x_content, cvars, gvars, fvars, tvars>>

NextExpand == ChatWithSchema \/ ChatWithoutSchema \/ ParseContent

SpecExpand == InitExpand /\ [][NextExpand]_vars

\* C1: extract_queries never returns an empty list.
C1_NeverEmpty == x_pc = "done" => Len(x_result) >= 1

-----------------------------------------------------------------------------
(* app.py: one user turn                                                   *)

\* A name that has not been assigned yet.
Undefined == <<-2>>

\* The object get_embedding_function returns.
LocalEmbeddings == <<69>>

RECURSIVE JoinQuoted(_)
JoinQuoted(l) ==
    IF l = <<>> THEN <<>>
    ELSE IF Len(l) = 1 THEN <<39>> \o l[1] \o <<39>>
    ELSE <<39>> \o l[1] \o <<39, 44, 32>> \o JoinQuoted(Tail(l))

\* The text of a list of sources as the page shows it: [], ['http://a'], ...
SourcesText(l) == <<91>> \o JoinQuoted(l) \o <<93>>

\* The context a grounded prompt puts before the question.
ContextText == <<67, 58, 32>>

\* prompt_generator.generate_prompt(question, embedding_function) when it
\* returns: with no embedding function or no document, the bare question and
\* an empty source list; otherwise a prompt that embeds the question, and the
\* sources of the documents used.
generate_prompt(question, embedding, documents) ==
    IF embedding = None \/ documents = <<>>
    THEN [prompt |-> question, sources |-> SourcesText(<<>>), grounded |-> FALSE]
    ELSE [prompt |-> ContextText \o question, sources |-> SourcesText(documents),
          grounded |-> TRUE]

\* The handler of lines 117-122 without its last assignment: the name
\* `sources` stays unassigned.
prompt_fallback_no_sources(msg) ==
    [prompt |-> msg, sources |-> Undefined, grounded |-> FALSE]

\* Lines 117-122: `prompt = usr_msg` and `sources = "[]"`.
prompt_fallback(msg) ==
    [prompt |-> msg, sources |-> <<91, 93>>, grounded |-> FALSE]

\* The most documents a fetch leaves in the download directory.
MaxDocs == 2

DocLists == {SubSeq(<<UrlA, UrlB, UrlC, UrlD, UrlE>>, 1, n) : n \in 0..MaxDocs}

\* A turn runs only for a non-empty chat input (line 78).
InitTurn ==
    /\ t_pc = "extract"
    /\ usr_msg \in Questions \ {<<>>}
    /\ t_queries = Undefined
    /\ embedding_function = Undefined
    /\ prompt = Undefined
    /\ sources = Undefined
    /\ docs = <<>>
    /\ failed = {}
    /\ grounded = FALSE
    /\ IdleCodec
    /\ IdleFilter
    /\ IdleFetch
    /\ IdleExpand

\* Lines 86-95: extract_queries, and the question itself when it returns
\* nothing.
ExtractQueries ==
    /\ t_pc = "extract"
    /\ \E first, second \in ChatOutcomes :
         LET q == extract_queries(usr_msg, first, second) IN
         /\ t_queries' = IF q = <<>> THEN <<usr_msg>> ELSE q
         /\ failed' = IF first.raises /\ second.raises THEN failed \cup {"expand"}
                      ELSE failed
    /\ t_pc' = "fetch"
    /\ UNCHANGED <<usr_msg, embedding_function, prompt, sources, docs, grounded,
                   cvars, gvars, fvars, xvars>>

\* Lines 97-104: run_async(fetch_web_pages(...)) returns or raises; either way
\* it leaves some documents, or none, in the download directory.
FetchPages ==
    /\ t_pc = "fetch"
    /\ \E raises \in BOOLEAN, d \in DocLists :
         /\ docs' = d
         /\ failed' = IF raises THEN failed \cup {"fetch"} ELSE failed
    /\ t_pc' = "embed"
    /\ UNCHANGED <<usr_msg, t_queries, embedding_function, prompt, sources,
                   grounded, cvars, gvars, fvars, xvars>>

\* Lines 106-112: get_embedding_function, None when it raises.
GetEmbeddingFunction ==
    /\ t_pc = "embed"
    /\ \E raises \in BOOLEAN :
         /\ embedding_function' = IF raises THEN None ELSE LocalEmbeddings
         /\ failed' = IF raises THEN failed \cup {"embed"} ELSE failed
    /\ t_pc' = "prompt"
    /\ UNCHANGED <<usr_msg, t_queries, prompt, sources, docs, grounded,
                   cvars, gvars, fvars, xvars>>

\* Lines 114-122: generate_prompt, and the fallback when it raises.
GeneratePrompt ==
    /\ t_pc = "prompt"
    /\ \E raises \in BOOLEAN :
         LET r == IF raises THEN prompt_fallback(usr_msg)
                  ELSE generate_prompt(usr_msg, embedding_function, docs)
         IN /\ prompt' = r.prompt
            /\ sources' = r.sources
            /\ grounded' = r.grounded
            /\ failed' = IF raises THEN failed \cup {"prompt"} ELSE failed
    /\ t_pc' = "generate"
    /\ UNCHANGED <<usr_msg, t_queries, embedding_function, docs,
                   cvars, gvars, fvars, xvars>>

\* Lines 124-144: the generation step; a missing client and a failing stream
\* are reported on the page.
Generate ==
    /\ t_pc = "generate"
    /\ \E outcome \in {"no_client", "streamed", "stream_error"} : t_pc' = "end"
    /\ UNCHANGED <<usr_msg, t_queries, embedding_function, prompt, sources, docs,
                   failed, grounded, cvars, gvars, fvars, xvars>>

NextTurn ==
    ExtractQueries \/ FetchPages \/ GetEmbeddingFunction \/ GeneratePrompt \/ Generate

SpecTurn == InitTurn /\ [][NextTurn]_vars

\* C7: whatever fails, the turn goes on until the generation step, where
\* prompt and sources are defined; and when no grounded prompt was built, the
\* prompt is the user's question and the source list is the empty one.
C7_NothingFatal ==
    /\ t_pc # "end" => ENABLED NextTurn
    /\ t_pc \in {"generate", "end"} =>
          /\ prompt # Undefined
          /\ sources # Undefined
          /\ ~grounded => prompt = usr_msg /\ sources = SourcesText(<<>>)

\* The generation step has been reached after query expansion, web fetching,
\* the embedding function and prompt generation have all failed.
C7_Witness ==
    /\ t_pc = "generate"
    /\ failed = {"expand", "fetch", "embed", "prompt"}
    /\ t_queries = <<usr_msg>>
    /\ prompt = usr_msg
    /\ sources = <<91, 93>>

=============================================================================
